---- MODULE Spec2Model ----
(***************************************************************************)
(* A model of the finance-advisor agent backend: the ingestion and         *)
(* synchronisation pipeline (app/routers/integrations.py), the retrieval   *)
(* engine (app/services/rag_service.py) and the conversation orchestrator  *)
(* with its trigger evaluator (app/services/ai_agent.py).                  *)
(*                                                                         *)
(* The server runs on one asyncio event loop: the code between two awaits  *)
(* is one atomic step, and tasks interleave only at awaits.  Each action   *)
(* below is one such step.                                                 *)
(***************************************************************************)
EXTENDS Integers, Sequences, FiniteSets, TLC

(***************************************************************************)
(* Bounds                                                                  *)
(***************************************************************************)
\* sync runs (full syncs and polls together) created in one behaviour
MaxRuns == 2

\* longest query text handed to the retrieval engine
MaxQueryLen == 2

\* largest kEmails / kContacts handed to the retrieval engine
MaxK == 2

\* most tool calls in one reply of the model
MaxTools == 2

\* most tool calls in one reply of the model while a sync run evaluates its
\* new records, one evaluation after the other
MaxEvalTools == 1

\* most runs of equal characters in a text handed to get_embedding
MaxSegments == 2

\* most messages the mailbox comes to hold
MaxMessages == 3

(***************************************************************************)
(* The world outside: users, sources and what the providers hold           *)
(***************************************************************************)
Users == {1, 2}

\* every sequence over S of length n
SeqsOfLen(S, n) == [1..n -> S]

Sources == {"gmail", "hubspot"}

\* The pages the provider returns for a full listing, per user and source.
\* User 1's mailbox is three messages on two pages (2 + 1).  Identifiers are
\* assigned by the provider per account, so two accounts may hold the same one.
Mailbox ==
    [u \in Users |-> [s \in Sources |->
        IF s = "gmail"
        THEN (IF u = 1 THEN << <<"m1", "m2">>, <<"m3">> >> ELSE << <<"m3">> >>)
        ELSE << <<"c1", "c2">> >> ]]

\* The versions of a record's properties a listing may show: a message never
\* changes, a contact may be edited at the provider between two listings.
Versions(s) == IF s = "gmail" THEN {1} ELSE {1, 2}

\* The pages the provider returns for the poll's query "after:<cutoff>".  A
\* page may hold no message and still carry a next-page token, as user 2's
\* first page does.
PollBox == [u \in Users |-> IF u = 1 THEN << <<"m2">>, <<"m3">> >> ELSE << <<>>, <<"m3">> >>]

\* Messages whose Date header is older than the poll's cutoff although the
\* provider listed them (the provider filters on its own arrival time).
StaleDate == {"m2"}

\* External records whose combined text is empty or whitespace.
BlankText == {"m1"}

VARIABLES
    connected,      \* connected[u][s]: the user row exists and holds a token for s
    sync_status,    \* the process-local sync_status map
    db,             \* db[s]: the rows of the emails / contacts table
    runs,           \* every sync run started so far, in order of creation
    sched,          \* one pass of scheduled_email_polling
    mail,           \* one user's mailbox at the provider as time passes
    ret,            \* one call of get_relevant_context: its arguments and progress
    emb,            \* one call of get_embedding: its text and what was submitted
    instructions,   \* the rows of the ongoing_instructions table
    tasks,          \* the rows of the tasks table
    ag              \* one call of AIAgent.chat or process_ongoing_instructions

ingestVars == <<connected, sync_status, db, runs, sched, mail>>

agentVars == <<instructions, tasks, ag>>

vars == <<connected, sync_status, db, runs, sched, mail, ret, emb, instructions, tasks, ag>>

(***************************************************************************)
(* SyncState                                                               *)
(***************************************************************************)
\* sync_status.get(user_id, {}).get(source): no entry yet
NoEntry == [present |-> FALSE, syncing |-> FALSE, completed |-> FALSE,
            imported |-> -1, error |-> FALSE]

\* the entry a sync request writes, replacing whatever was there
StartedEntry == [present |-> TRUE, syncing |-> TRUE, completed |-> FALSE,
                 imported |-> -1, error |-> FALSE]

\* "Mark sync as completed"
CompletedEntry(e, n) ==
    IF e.present
    THEN [e EXCEPT !.syncing = FALSE, !.completed = TRUE, !.imported = n]
    ELSE e

\* a failure entry that leaves the sync marked in progress
FailedEntryStillSyncing(e) ==
    IF e.present THEN [e EXCEPT !.completed = TRUE, !.error = TRUE] ELSE e

\* "Mark sync as failed"
FailedEntry(e) ==
    IF e.present
    THEN [e EXCEPT !.syncing = FALSE, !.completed = TRUE, !.error = TRUE]
    ELSE e

\* a poll that does not look at sync_status
PollGuardOff(st, u) == FALSE

\* the poll's guard: a manual sync is marked in progress
PollGuard(st, u) == st[u]["gmail"].present /\ st[u]["gmail"].syncing

(***************************************************************************)
(* The tables                                                              *)
(***************************************************************************)
\* a sync without the existence check
ExistingNever(d, u, s, x) == FALSE

\* db.query(Email).filter(user_id == u, gmail_id == x).first()
Existing(d, u, s, x) == \E e \in d[s] : e.user_id = u /\ e.ext = x

\* tables without the unique index
NoUniqueIndex(d, s, x) == FALSE

\* the unique index on gmail_id / hubspot_id: an insert of a value some row
\* (of any user) already holds raises IntegrityError
UniqueViolation(d, s, x) == \E e \in d[s] : e.ext = x

UserIds(d, u, s) == {e.ext : e \in {f \in d[s] : f.user_id = u}}

(***************************************************************************)
(* Sync runs                                                               *)
(***************************************************************************)
Done(r) == r.pc = "done"

SamePair(r, u, s) == r.user = u /\ r.source = s

\* A run record: the task's position (pc, page, idx), its local imported_count,
\* and what it has done so far (provider list calls, detail fetches, rows
\* committed, trigger evaluations).  fresh, after and clean remember how the
\* run began: with no row of the user in the table, after a full sync of the
\* pair had completed, with no other run of the pair under way (then or since),
\* and with which identifiers of the user stored (had).  seen is the version
\* of the properties the last listing showed; pending holds the identifiers of
\* the stored contacts the run has overwritten in its session and not yet
\* committed.  trace lists, in order, the list calls the run has made and the
\* records its loop body has taken up; evaluated lists the identifiers it has
\* passed to process_ongoing_instructions.
NewRun(kind, u, s) ==
    [kind |-> kind, user |-> u, source |-> s, pc |-> "start",
     page |-> 1, idx |-> 1, imported |-> 0,
     lists |-> 0, fetches |-> 0, persisted |-> 0, evals |-> 0,
     outcome |-> "none", error |-> "none", sawSyncing |-> FALSE,
     trace |-> <<>>, evaluated |-> <<>>,
     seen |-> 1, pending |-> {}, had |-> UserIds(db, u, s),
     fresh |-> UserIds(db, u, s) = {},
     after |-> \E i \in 1..Len(runs) :
                  /\ SamePair(runs[i], u, s) /\ runs[i].kind = "full"
                  /\ runs[i].outcome = "completed",
     clean |-> \A i \in 1..Len(runs) : SamePair(runs[i], u, s) => Done(runs[i])]

\* The runs of the pair that are under way get company.
Joined(rs, u, s) ==
    [i \in 1..Len(rs) |->
        IF SamePair(rs[i], u, s) /\ ~Done(rs[i])
        THEN [rs[i] EXCEPT !.clean = FALSE]
        ELSE rs[i]]

PagesOf(r) == IF r.kind = "poll" THEN PollBox[r.user] ELSE Mailbox[r.user][r.source]

PageAt(pages, p) == IF p <= Len(pages) THEN pages[p] ELSE <<>>

\* a run that ignores the next-page token
HasNextPageNever(pages, p) == FALSE

\* result.get("nextPageToken") / paging.next.after is set
HasNextPage(pages, p) == p < Len(pages)

\* result = await list_emails(page_token=...): the run asks for page p
Listed(r, p) == [r EXCEPT !.trace = Append(@, [op |-> "list", page |-> p, id |-> "-"])]

\* for msg in messages: the loop body takes up record x of page p
Visited(r, p, x) == [r EXCEPT !.trace = Append(@, [op |-> "rec", page |-> p, id |-> x])]

\* a poll that goes on after an empty page
EndsAtEmptyPageNever(r, msgs) == FALSE

\* "if not messages: break": a poll leaves its loop at a page without messages
EndsAtEmptyPage(r, msgs) == r.kind = "poll" /\ msgs = <<>>

\* What the loop does with a record that exists: a message is skipped; a
\* contact's stored properties are overwritten in the session ("Update
\* existing"), which a later commit of the run writes to the table.
Touched(r, x) ==
    IF r.source = "hubspot" THEN [r EXCEPT !.pending = @ \cup {x}] ELSE r

\* db.commit(): the session's overwritten contacts reach the table
Commit(d, r) ==
    [d EXCEPT ![r.source] =
        {IF e.user_id = r.user /\ e.ext \in r.pending
         THEN [e EXCEPT !.props = r.seen] ELSE e : e \in @}]

\* The loop over a page from message k on, up to the next await: records that
\* exist are skipped; the first new one is fetched; at the end of the page the
\* next page is listed, or the loops end.
RECURSIVE Scan(_, _, _, _)
Scan(r, d, p, k) ==
    LET pages == PagesOf(r)
        msgs == PageAt(pages, p)
    IN  IF EndsAtEmptyPage(r, msgs)
        THEN [r EXCEPT !.pc = "finish", !.page = p, !.idx = k]
        ELSE IF k > Len(msgs)
        THEN IF HasNextPage(pages, p)
             THEN [r EXCEPT !.pc = "list", !.page = p + 1, !.idx = 1]
             ELSE [r EXCEPT !.pc = "finish", !.page = p, !.idx = k]
        ELSE IF Existing(d, r.user, r.source, msgs[k])
        THEN Scan(Touched(Visited(r, p, msgs[k]), msgs[k]), d, p, k + 1)
        ELSE [Visited(r, p, msgs[k]) EXCEPT !.pc = "fetch", !.page = p, !.idx = k]

\* The run leaves its loops normally.
Completed(r) ==
    [r EXCEPT !.pc = "done", !.outcome = "completed"]

\* The run is left by an exception; why is the message of the exception.
Failed(r, why) ==
    [r EXCEPT !.pc = "done", !.outcome = "error", !.error = why]

\* an end written to every entry of the user, not to the run's pair alone
StatusAfterWholeUser(st, r) ==
    IF r.kind = "full" /\ r.pc = "done" /\ r.outcome \in {"completed", "error"}
    THEN [st EXCEPT ![r.user] =
            [s \in Sources |->
                IF r.outcome = "completed"
                THEN CompletedEntry(st[r.user][s], r.imported)
                ELSE FailedEntry(st[r.user][s])]]
    ELSE st

\* A full sync writes its end to sync_status; a poll never writes it.
StatusAfter(st, r) ==
    IF r.kind = "full" /\ r.pc = "done" /\ r.outcome \in {"completed", "error"}
    THEN [st EXCEPT ![r.user][r.source] =
            IF r.outcome = "completed"
            THEN CompletedEntry(@, r.imported)
            ELSE FailedEntry(@)]
    ELSE st

\* After a scan: a run that left its loops completes in the same step.
Settle(r) == IF r.pc = "finish" THEN Completed(r) ELSE r

\* no polling pass under way: roster is the list of users the pass loads,
\* next the place in it of the user to poll next, polls the runs it started
NoPass == [pc |-> "idle", roster |-> <<>>, next |-> 1, polls |-> <<>>]

\* a mailbox without messages: box lists the messages in the order they
\* came, each with its age and where it came from; stored and evaluated hold
\* the places in box of the messages that have an Email row and of those
\* handed to process_ongoing_instructions; listed is what the full sync under
\* way got from its list call; polled says that the timer has fired since the
\* clock last moved
NoMail ==
    [polled |-> FALSE, box |-> <<>>, stored |-> {}, evaluated |-> {},
     running |-> FALSE, listed |-> {}]

IngestInit ==
    /\ connected = [u \in Users |-> [s \in Sources |-> s = "gmail" \/ u = 1]]
    /\ sync_status = [u \in Users |-> [s \in Sources |-> NoEntry]]
    /\ db = [s \in Sources |-> {}]
    /\ runs = <<>>
    /\ sched = NoPass
    /\ mail = NoMail

\* POST /sync/gmail, POST /sync/hubspot
SyncRequest(u, s) ==
    /\ Len(runs) < MaxRuns
    /\ connected[u][s]
    /\ sync_status' = [sync_status EXCEPT ![u][s] = StartedEntry]
    /\ runs' = Append(Joined(runs, u, s), NewRun("full", u, s))
    /\ UNCHANGED <<connected, db, sched, mail, ret, emb, agentVars>>

\* sync_gmail_background / sync_hubspot_background up to the first await
FullStart(i) ==
    /\ runs[i].kind = "full" /\ runs[i].pc = "start"
    /\ LET r == runs[i]
       IN  runs' = [runs EXCEPT ![i] =
                    IF connected[r.user][r.source]
                    THEN [r EXCEPT !.pc = "list"]
                    ELSE [r EXCEPT !.pc = "done", !.outcome = "early"]]
    /\ UNCHANGED <<connected, sync_status, db, sched, mail, ret, emb, agentVars>>

\* poll_new_emails(u) up to its first await: the runs with the poll added
Polling(u) ==
    LET r == [NewRun("poll", u, "gmail") EXCEPT
                    !.sawSyncing = sync_status[u]["gmail"].present
                                    /\ sync_status[u]["gmail"].syncing]
    IN  IF ~connected[u]["gmail"]
        THEN Append(runs, [r EXCEPT !.pc = "done", !.outcome = "early"])
        ELSE IF PollGuard(sync_status, u)
        THEN Append(runs, [r EXCEPT !.pc = "done", !.outcome = "blocked"])
        ELSE Append(Joined(runs, u, "gmail"), [r EXCEPT !.pc = "list"])

\* poll_new_emails up to the first await; the scheduler awaits one poll at a time
PollStart(u) ==
    /\ Len(runs) < MaxRuns
    /\ \A i \in 1..Len(runs) : runs[i].kind = "poll" => Done(runs[i])
    /\ runs' = Polling(u)
    /\ UNCHANGED <<connected, sync_status, db, sched, mail, ret, emb, agentVars>>

\* every order in which the query may return the users of S
Orders(S) == {q \in SeqsOfLen(S, Cardinality(S)) : \A i, j \in 1..Len(q) : i # j => q[i] # q[j]}

\* a poll whose exceptions reach its caller
PropagatesFailure(r) == r.outcome = "error"

\* poll_new_emails catches every Exception and returns: none reaches the pass
Propagates(r) == FALSE

\* scheduled_email_polling up to its first await: the users holding a Google
\* token are loaded (the query has no ORDER BY) and the first one's poll begins
PassStart ==
    /\ sched.pc = "idle"
    /\ runs = <<>>
    /\ \E q \in Orders({u \in Users : connected[u]["gmail"]}) :
        IF q = <<>>
        THEN /\ sched' = [sched EXCEPT !.pc = "done"]
             /\ runs' = runs
        ELSE /\ sched' = [sched EXCEPT !.pc = "polling", !.roster = q, !.next = 2,
                                       !.polls = <<Len(runs) + 1>>]
             /\ runs' = Polling(q[1])
    /\ UNCHANGED <<connected, sync_status, db, mail, ret, emb, agentVars>>

\* The awaited poll has returned: the pass takes the next user of its list and
\* begins that poll, or ends after the last; an exception out of the poll
\* would end the pass in its except clause.
PassPoll ==
    /\ sched.pc = "polling"
    /\ Done(runs[sched.polls[Len(sched.polls)]])
    /\ IF Propagates(runs[sched.polls[Len(sched.polls)]]) \/ sched.next > Len(sched.roster)
       THEN /\ sched' = [sched EXCEPT !.pc = "done"]
            /\ runs' = runs
       ELSE /\ sched' = [sched EXCEPT !.next = @ + 1, !.polls = Append(@, Len(runs) + 1)]
            /\ runs' = Polling(sched.roster[sched.next])
    /\ UNCHANGED <<connected, sync_status, db, mail, ret, emb, agentVars>>

\* list_emails / list_all_contacts returns or raises, and the page is scanned
ListPage(i) ==
    /\ runs[i].pc = "list"
    /\ \E ok \in BOOLEAN, v \in Versions(runs[i].source) :
        LET r0 == [Listed(runs[i], runs[i].page) EXCEPT
                        !.lists = @ + 1, !.seen = IF ok THEN v ELSE @]
            r1 == IF ok THEN Settle(Scan(r0, db, r0.page, 1)) ELSE Failed(r0, "list")
        IN  /\ runs' = [runs EXCEPT ![i] = r1]
            /\ sync_status' = StatusAfter(sync_status, r1)
    /\ UNCHANGED <<connected, db, sched, mail, ret, emb, agentVars>>

\* the record a run at its fetch is about to take
RecordAt(r) == PageAt(PagesOf(r), r.page)[r.idx]

\* "if received_at < cutoff_time: continue" in a poll
SkipStale(r) == r.kind = "poll" /\ RecordAt(r) \in StaleDate

\* get_email / get_contact_notes returns or raises; the record is committed,
\* embedded and counted: the run and the table up to the next await, which
\* for a new message is the call of process_ongoing_instructions (pc "eval")
Stored(r, d, out) ==
    LET r0 == [r EXCEPT !.fetches = @ + 1]
        u == r0.user
        s == r0.source
        x == RecordAt(r0)
        row(vec) == [id |-> Cardinality(d[s]) + 1, user_id |-> u, ext |-> x,
                     embedded |-> vec, props |-> r0.seen]
        dAdd == [Commit(d, r0) EXCEPT ![s] = @ \cup {row(FALSE)}]
        dEmb == [Commit(d, r0) EXCEPT ![s] = @ \cup {row(x \notin BlankText)}]
        r2 == [r0 EXCEPT !.persisted = @ + 1, !.pending = {}]
        r3 == [r2 EXCEPT !.imported = @ + 1]
        r4 == [r3 EXCEPT !.evals = @ + 1, !.evaluated = Append(@, x), !.pc = "eval"]
    IN  IF out = "fetch_error" THEN <<Failed(r0, "fetch"), d>>
        ELSE IF SkipStale(r0)
        THEN <<Settle(Scan(r0, d, r0.page, r0.idx + 1)), d>>
        ELSE IF UniqueViolation(d, s, x) THEN <<Failed(r0, "integrity"), d>>
        ELSE IF out = "embed_error" THEN <<Failed(r2, "embed"), dAdd>>
        ELSE IF s = "gmail" THEN <<r4, dEmb>>
        ELSE <<Settle(Scan(r3, dEmb, r3.page, r3.idx + 1)), dEmb>>

\* process_ongoing_instructions has returned, or has raised into the run;
\* the run scans the page further, or ends in its except clause
AfterEvaluation(r, d, raised) ==
    IF raised THEN Failed(r, "eval") ELSE Settle(Scan(r, d, r.page, r.idx + 1))

\* get_email / get_contact_notes returns or raises; the record is committed,
\* embedded, counted and evaluated; then the page is scanned further
FetchRecord(i) ==
    /\ runs[i].pc = "fetch"
    /\ \E out \in {"fetch_error", "embed_error", "eval_error", "ok"} :
        LET res == Stored(runs[i], db, out)
            r1 == IF res[1].pc = "eval"
                  THEN AfterEvaluation(res[1], res[2], out = "eval_error")
                  ELSE res[1]
        IN  /\ out = "embed_error" =>
                    RecordAt(runs[i]) \notin BlankText /\ ~SkipStale(runs[i])
            /\ out = "eval_error" =>
                    runs[i].source = "gmail" /\ ~SkipStale(runs[i])
            /\ runs' = [runs EXCEPT ![i] = r1]
            /\ db' = res[2]
            /\ sync_status' = StatusAfter(sync_status, r1)
    /\ UNCHANGED <<connected, sched, mail, ret, emb, agentVars>>

\* The user row or its token is removed from outside (the core never does it).
\* Only a step that reads the token can see this: a sync request, the start of
\* a background run or of a poll; it is taken while such a step can still follow.
Revoke(u, s) ==
    /\ connected[u][s]
    /\ \/ Len(runs) < MaxRuns
       \/ \E i \in 1..Len(runs) : SamePair(runs[i], u, s) /\ runs[i].pc = "start"
    /\ connected' = [connected EXCEPT ![u][s] = FALSE]
    /\ UNCHANGED <<sync_status, db, runs, sched, mail, ret, emb, agentVars>>

\* one pass of the scheduler over the users, with what happens meanwhile
PollingNext ==
    \/ PassStart
    \/ PassPoll
    \/ \E i \in 1..Len(runs) : ListPage(i)
    \/ \E i \in 1..Len(runs) : FetchRecord(i)
    \/ \E u \in Users, s \in Sources : Revoke(u, s)

IngestNext ==
    \/ \E u \in Users, s \in Sources : SyncRequest(u, s)
    \/ \E i \in 1..Len(runs) : FullStart(i)
    \/ \E u \in Users : PollStart(u)
    \/ \E i \in 1..Len(runs) : ListPage(i)
    \/ \E i \in 1..Len(runs) : FetchRecord(i)
    \/ \E u \in Users, s \in Sources : Revoke(u, s)

(***************************************************************************)
(* No conversation under way                                               *)
(***************************************************************************)
AgIdle ==
    [pc |-> "idle", entry |-> "none", user |-> 1, event |-> "none",
     shown |-> {}, system |-> {}, presented |-> <<>>,
     offered |-> <<>>, reply |-> <<>>, calls |-> <<>>, execs |-> <<>>,
     results |-> <<>>, classified |-> <<>>,
     chatCalls |-> 0, modelCalls |-> 0, toolExecs |-> 0, providerCalls |-> 0,
     classifyCalls |-> 0, response |-> "none", error |-> FALSE,
     chatRaised |-> FALSE, toolRaised |-> FALSE, snapshot |-> {}]

AgentIdle == instructions = {} /\ tasks = {} /\ ag = AgIdle

\* no call of get_embedding: given is the text of the first call, text the
\* argument of the call at hand, submitted the input sent to the provider
EmbIdle == [pc |-> "idle", given |-> <<>>, text |-> <<>>, submitted |-> <<>>,
            round |-> 0, providerCalls |-> 0]

(***************************************************************************)
(* The retrieval engine (rag_service.py)                                   *)
(***************************************************************************)
\* Text is a sequence of characters.  The alphabet has a letter in both
\* cases, a second letter, the blank and the two characters LIKE treats as
\* wildcards.
QueryChars == {"a", "A", "b", " ", "%", "_"}

Queries == UNION {SeqsOfLen(QueryChars, n) : n \in 0..MaxQueryLen}

\* str.lower() and the case folding of ILIKE
LowerChar(c) == IF c = "A" THEN "a" ELSE c

Lower(t) == [i \in 1..Len(t) |-> LowerChar(t[i])]

\* str.strip()
RECURSIVE LStrip(_)
LStrip(t) == IF t # <<>> /\ Head(t) = " " THEN LStrip(Tail(t)) ELSE t

RECURSIVE RStrip(_)
RStrip(t) ==
    IF t # <<>> /\ t[Len(t)] = " " THEN RStrip(SubSeq(t, 1, Len(t) - 1)) ELSE t

Strip(t) == RStrip(LStrip(t))

\* str.replace(' ', '')
RemoveSpaces(t) == SelectSeq(t, LAMBDA c : c # " ")

\* column ILIKE pattern: % is any run of characters, _ any one character
RECURSIVE ILike(_, _)
ILike(t, pat) ==
    IF pat = <<>> THEN t = <<>>
    ELSE IF Head(pat) = "%"
    THEN ILike(t, Tail(pat)) \/ (t # <<>> /\ ILike(Tail(t), pat))
    ELSE IF Head(pat) = "_"
    THEN t # <<>> /\ ILike(Tail(t), Tail(pat))
    ELSE /\ t # <<>>
         /\ LowerChar(Head(t)) = LowerChar(Head(pat))
         /\ ILike(Tail(t), Tail(pat))

\* the filter of the exact-match query on one row's from_email
SenderMatch(from, query) ==
    LET query_lower == Strip(Lower(query))
    IN  \/ ILike(from, <<"%">> \o query_lower \o <<"%">>)
        \/ ILike(from, <<"%">> \o RemoveSpaces(query_lower) \o <<"%">>)

\* Whose context is asked for: the two users above, and a third who has one
\* message stored, without embedding, and no contact.
Callers == Users \cup {3}

\* The rows retrieval reads.  received_at 0 is NULL, vec -1 a NULL embedding;
\* an embedding is a point of VecSpace and the distance of two the gap between.
VecSpace == 0..2

NullVec == -1

NullDate == 0

EmailRows ==
    { [id |-> 1, user_id |-> 1, from_email |-> <<"a", "b">>, received_at |-> 2, vec |-> 0],
      [id |-> 2, user_id |-> 1, from_email |-> <<"A", "b">>, received_at |-> 3, vec |-> 2],
      [id |-> 3, user_id |-> 1, from_email |-> <<"b">>, received_at |-> NullDate, vec |-> 1],
      [id |-> 4, user_id |-> 1, from_email |-> <<"b", "a">>, received_at |-> 1, vec |-> NullVec],
      [id |-> 5, user_id |-> 2, from_email |-> <<"a", "b">>, received_at |-> 1, vec |-> NullVec],
      [id |-> 6, user_id |-> 3, from_email |-> <<"b">>, received_at |-> 1, vec |-> NullVec] }

ContactRows ==
    { [id |-> 1, user_id |-> 1, vec |-> 0],
      [id |-> 2, user_id |-> 1, vec |-> 2],
      [id |-> 3, user_id |-> 1, vec |-> NullVec],
      [id |-> 4, user_id |-> 2, vec |-> 1] }

\* embedding <=> query_embedding
Distance(v, w) == IF v >= w THEN v - w ELSE w - v

\* ORDER BY key LIMIT k over the rows S: every list of min(k, |S|) distinct
\* rows in non-decreasing key order that leaves out no row with a smaller key
\* (the database may order rows of equal key either way).
Limited(S, key, k) ==
    LET n == IF Cardinality(S) < k THEN Cardinality(S) ELSE k
    IN  { q \in SeqsOfLen(S, n) :
            /\ \A i, j \in 1..n : i < j => (q[i] # q[j] /\ key[q[i]] <= key[q[j]])
            /\ \A e \in S : (\A i \in 1..n : q[i] # e) =>
                    \A i \in 1..n : key[q[i]] <= key[e] }

\* ORDER BY received_at DESC: newest first, and PostgreSQL puts NULL before them
NewestFirstKey(e) == IF e.received_at = NullDate THEN -100 ELSE 0 - e.received_at

\* the exact-match query of search_emails
ExactCandidates(u, query) ==
    {e \in EmailRows : e.user_id = u /\ SenderMatch(e.from_email, query)}

\* a search without the exact-match phase
ExactMatchesNone(u, query, k) == {<<>>}

ExactMatches(u, query, k) ==
    LET S == ExactCandidates(u, query)
    IN  Limited(S, [e \in S |-> NewestFirstKey(e)], k)

\* the semantic query without its user filter
EmbeddedOfAnyone(rows, u) == {e \in rows : e.vec # NullVec}

\* WHERE user_id = :user_id AND embedding IS NOT NULL
Embedded(rows, u) == {e \in rows : e.user_id = u /\ e.vec # NullVec}

\* the pgvector query without its ORDER BY
NearestUnordered(rows, u, qv, k) ==
    LET S == Embedded(rows, u) IN Limited(S, [e \in S |-> 0], k)

\* the pgvector query of search_emails and of search_contacts
Nearest(rows, u, qv, k) ==
    LET S == Embedded(rows, u) IN Limited(S, [e \in S |-> Distance(e.vec, qv)], k)

\* One element of context_parts: a header line, or the block of the email or
\* contact with the given id.
Part(kind, id) == [kind |-> kind, id |-> id]

Blocks(kind, rows) == [k \in 1..Len(rows) |-> Part(kind, rows[k].id)]

\* "No relevant context found."
Sentinel == <<Part("No relevant context found.", 0)>>

\* a formatting that looks at the emails only
FormatEmailsOnly(emails, contacts) ==
    IF emails # <<>>
    THEN <<Part("## Relevant Emails:", 0)>> \o Blocks("email", emails)
    ELSE Sentinel

\* context_parts of get_relevant_context and what is returned for them
FormatContext(emails, contacts) ==
    LET context_parts ==
            (IF emails # <<>>
             THEN <<Part("## Relevant Emails:", 0)>> \o Blocks("email", emails)
             ELSE <<>>)
            \o (IF contacts # <<>>
                THEN <<Part("## Relevant Contacts:", 0)>> \o Blocks("contact", contacts)
                ELSE <<>>)
    IN  IF context_parts # <<>> THEN context_parts ELSE Sentinel

RetIdle ==
    [pc |-> "idle", user |-> 1, query |-> <<>>, kEmails |-> 1, kContacts |-> 1,
     embedCalls |-> 0, emailCalls |-> 0, phase |-> "none",
     emails |-> <<>>, contacts |-> <<>>, evec |-> NullVec, cvec |-> NullVec,
     output |-> <<>>]

\* get_relevant_context(db, user_id, query, email_limit, contact_limit) is called
RetrieveInit ==
    /\ IngestInit
    /\ AgentIdle
    /\ emb = EmbIdle
    /\ \E u \in Callers, q \in Queries, ke \in 1..MaxK, kc \in 1..MaxK :
        ret = [RetIdle EXCEPT !.pc = "emails", !.user = u, !.query = q,
                              !.kEmails = ke, !.kContacts = kc]

\* search_emails finds exact matches and returns them
ExactStep ==
    /\ ret.pc = "emails"
    /\ \E found \in ExactMatches(ret.user, ret.query, ret.kEmails) :
        /\ found # <<>>
        /\ ret' = [ret EXCEPT !.pc = "contacts", !.phase = "exact", !.emails = found]
    /\ UNCHANGED <<ingestVars, emb, agentVars>>

\* search_emails finds no exact match: it embeds the query (the provider
\* answers with some vector, or the call raises) and ranks by distance
SemanticStep ==
    /\ ret.pc = "emails"
    /\ <<>> \in ExactMatches(ret.user, ret.query, ret.kEmails)
    /\ \/ ret' = [ret EXCEPT !.pc = "raised", !.embedCalls = @ + 1,
                             !.emailCalls = @ + 1]
       \/ \E qv \in VecSpace :
            \E found \in Nearest(EmailRows, ret.user, qv, ret.kEmails) :
                ret' = [ret EXCEPT !.pc = "contacts", !.phase = "semantic",
                                   !.embedCalls = @ + 1, !.emailCalls = @ + 1,
                                   !.emails = found, !.evec = qv]
    /\ UNCHANGED <<ingestVars, emb, agentVars>>

\* search_contacts embeds the query and ranks by distance; the context is
\* formatted and returned
ContactsStep ==
    /\ ret.pc = "contacts"
    /\ \/ ret' = [ret EXCEPT !.pc = "raised", !.embedCalls = @ + 1]
       \/ \E qv \in VecSpace :
            \E found \in Nearest(ContactRows, ret.user, qv, ret.kContacts) :
                ret' = [ret EXCEPT !.pc = "done", !.embedCalls = @ + 1,
                                   !.contacts = found, !.cvec = qv,
                                   !.output = FormatContext(ret.emails, found)]
    /\ UNCHANGED <<ingestVars, emb, agentVars>>

RetrieveNext == ExactStep \/ SemanticStep \/ ContactsStep

SpecRetrieve == RetrieveInit /\ [][RetrieveNext]_vars

(***************************************************************************)
(* get_embedding (rag_service.py)                                          *)
(***************************************************************************)
\* "To be safe, truncate to 20,000 characters"
MAX_CHARS == 20000

\* A text long enough to reach MAX_CHARS is written run by run: a sequence of
\* [c, n], n >= 1 copies of the character c, neighbouring runs of different
\* characters.  Every text has exactly one such writing.
TextChars == {"a", "b"}

\* the run lengths tried: short ones, and ones around MAX_CHARS
SegmentLens == {1, 2, MAX_CHARS - 1, MAX_CHARS, MAX_CHARS + 1, 2 * MAX_CHARS}

Segments == [c : TextChars, n : SegmentLens]

LongTexts ==
    UNION {{t \in SeqsOfLen(Segments, k) : \A i \in 1..(k - 1) : t[i].c # t[i + 1].c} :
            k \in 0..MaxSegments}

\* len(text)
RECURSIVE TextLen(_)
TextLen(t) == IF t = <<>> THEN 0 ELSE Head(t).n + TextLen(Tail(t))

\* text[:n]
RECURSIVE Take(_, _)
Take(t, n) ==
    IF t = <<>> \/ n <= 0 THEN <<>>
    ELSE IF Head(t).n >= n THEN <<[Head(t) EXCEPT !.n = n]>>
    ELSE <<Head(t)>> \o Take(Tail(t), n - Head(t).n)

\* a truncation one character short of the ceiling
TruncatedShort(text) ==
    IF TextLen(text) > MAX_CHARS THEN Take(text, MAX_CHARS - 1) ELSE text

\* if len(text) > MAX_CHARS: text = text[:MAX_CHARS]
Truncated(text) ==
    IF TextLen(text) > MAX_CHARS THEN Take(text, MAX_CHARS) ELSE text

\* get_embedding(text) is called
EmbedInit ==
    /\ IngestInit
    /\ ret = RetIdle
    /\ AgentIdle
    /\ \E t \in LongTexts :
        emb = [EmbIdle EXCEPT !.pc = "call", !.given = t, !.text = t, !.round = 1]

\* get_embedding: the text is cut to MAX_CHARS and sent to the provider, which
\* answers with a vector or raises
Submit ==
    /\ emb.pc = "call"
    /\ \E ok \in BOOLEAN :
        emb' = [emb EXCEPT !.pc = IF ok THEN "returned" ELSE "raised",
                           !.submitted = Truncated(emb.text),
                           !.providerCalls = @ + 1]
    /\ UNCHANGED <<ingestVars, ret, agentVars>>

\* get_embedding is called again, with the text the last call submitted
Resubmit ==
    /\ emb.pc \in {"returned", "raised"}
    /\ emb.round = 1
    /\ emb' = [emb EXCEPT !.pc = "call", !.text = emb.submitted, !.round = 2]
    /\ UNCHANGED <<ingestVars, ret, agentVars>>

EmbedNext == Submit \/ Resubmit

SpecEmbedding == EmbedInit /\ [][EmbedNext]_vars

(***************************************************************************)
(* The orchestrator, the dispatcher and the trigger evaluator (ai_agent.py)*)
(***************************************************************************)
\* the values the trigger_type column is meant to hold
ValidTypes == {"email", "calendar", "hubspot", "all"}

\* the kinds of event process_ongoing_instructions is told about
EventTypes == {"email", "calendar", "hubspot"}

\* The instruction rows a behaviour may start with: of user 1 an active
\* calendar rule, an active rule for all events and an inactive email rule;
\* of user 2 an active email rule.
InstructionRows ==
    { [id |-> 1, user_id |-> 1, instruction |-> "on_calendar", trigger_type |-> "calendar",
       is_active |-> TRUE],
      [id |-> 2, user_id |-> 1, instruction |-> "on_all", trigger_type |-> "all",
       is_active |-> TRUE],
      [id |-> 3, user_id |-> 1, instruction |-> "off_email", trigger_type |-> "email",
       is_active |-> FALSE],
      [id |-> 4, user_id |-> 2, instruction |-> "on_email", trigger_type |-> "email",
       is_active |-> TRUE] }

\* the registry of _execute_tool, by the service a tool needs
GoogleTools == {"send_email", "create_calendar_event", "get_calendar_events"}

HubspotTools == {"search_hubspot_contact", "create_hubspot_contact", "create_hubspot_note"}

LocalTools == {"search_emails_and_contacts", "create_task", "create_ongoing_instruction"}

\* what the model may name in a tool call: the registry and a name outside it
ToolNames == GoogleTools \cup HubspotTools \cup LocalTools \cup {"no_such_tool"}

\* AIAgent.__init__: a service exists when the user holds its token
HasService(u, s) == s = "gmail" \/ u = 1

\* a trigger evaluation that forgets the is_active filter
RelevantIgnoringActive(rows, u, t) ==
    {i \in rows : i.user_id = u /\ (i.trigger_type = t \/ i.trigger_type = "all")}

\* the query of process_ongoing_instructions
RelevantInstructions(rows, u, t) ==
    {i \in rows : /\ i.user_id = u
                  /\ i.is_active
                  /\ (i.trigger_type = t \/ i.trigger_type = "all")}

\* a load that forgets the is_active filter
InstructionsOfUser(rows, u) == {i \in rows : i.user_id = u}

\* the query of chat: every active instruction of the user
ActiveInstructions(rows, u) == {i \in rows : i.user_id = u /\ i.is_active}

Texts(rows) == {i.instruction : i \in rows}

\* what the classifier may answer: a word of the four, one in another case,
\* one with blanks around it, a word outside the four; "RAISE": the call raised
Answers == {"calendar", "Email", " all ", "maybe", "RAISE"}

\* content.strip().lower() on these answers
StripLower(answer) ==
    CASE answer = "Email" -> "email"
      [] answer = " all " -> "all"
      [] OTHER -> answer

\* a classification that returns the answer without validating it
DetectUnvalidated(answer) == IF answer = "RAISE" THEN "all" ELSE StripLower(answer)

\* detect_trigger_type on the classifier's answer
DetectTriggerType(answer) ==
    IF answer = "RAISE" THEN "all"
    ELSE IF StripLower(answer) \in ValidTypes THEN StripLower(answer)
    ELSE "all"

\* the trigger_type argument the model may supply with create_ongoing_instruction
SuppliedTypes == {"email", "sms"}

\* What one _execute_tool call can do: raise (json.loads on the arguments is
\* outside its try), or return a result; with the provider calls it made, the
\* classifier's answer when it classified ("none" otherwise) and the tables
\* afterwards.
ToolOutcome(raised, ok, prov, answer, instrs, tsks) ==
    [raised |-> raised, success |-> ok, provider |-> prov, answer |-> answer,
     instructions |-> instrs, tasks |-> tsks, arg |-> "none"]

\* the instruction argument the model may give create_ongoing_instruction: a
\* text with a capital and with blanks around it
InstructionTexts == {" New "}

\* a task stored as already in progress
NewTaskInProgress(tsks, u) ==
    [id |-> Cardinality(tsks) + 1, user_id |-> u, status |-> "in_progress"]

\* Task(user_id=self.user.id, ..., status="pending")
NewTask(tsks, u) ==
    [id |-> Cardinality(tsks) + 1, user_id |-> u, status |-> "pending"]

\* OngoingInstruction(user_id=self.user.id, instruction=instruction_text,
\*                    trigger_type=trigger_type, is_active=True)
NewInstruction(instrs, u, text, t) ==
    [id |-> Cardinality(instrs) + 1, user_id |-> u,
     instruction |-> text, trigger_type |-> t, is_active |-> TRUE]

\* a tool of a service: "not connected" without the service, else the
\* provider is called and returns or raises
Needs(u, s, instrs, tsks) ==
    IF HasService(u, s)
    THEN { ToolOutcome(FALSE, TRUE, 1, "none", instrs, tsks),
           ToolOutcome(FALSE, FALSE, 1, "none", instrs, tsks) }
    ELSE { ToolOutcome(FALSE, FALSE, 0, "none", instrs, tsks) }

ToolOutcomes(name, u, instrs, tsks) ==
    LET same(ok) == ToolOutcome(FALSE, ok, 0, "none", instrs, tsks)
        stored(a, text, t) ==
            [ToolOutcome(FALSE, TRUE, 0, a,
                         instrs \cup {NewInstruction(instrs, u, text, t)}, tsks)
                EXCEPT !.arg = text]
    IN  {ToolOutcome(TRUE, FALSE, 0, "none", instrs, tsks)} \cup
        (IF name = "search_emails_and_contacts" THEN {same(TRUE), same(FALSE)}
         ELSE IF name \in GoogleTools THEN Needs(u, "gmail", instrs, tsks)
         ELSE IF name \in HubspotTools THEN Needs(u, "hubspot", instrs, tsks)
         ELSE IF name = "create_task"
         THEN {ToolOutcome(FALSE, TRUE, 0, "none", instrs, tsks \cup {NewTask(tsks, u)}),
               same(FALSE)}
         ELSE IF name = "create_ongoing_instruction"
         THEN {same(FALSE)}
              \cup {stored("none", text, t) : text \in InstructionTexts, t \in SuppliedTypes}
              \cup {stored(a, text, DetectTriggerType(a)) :
                        text \in InstructionTexts, a \in Answers}
         ELSE {same(FALSE)})

\* a loop that takes the tool calls from the end of the reply
LastCall(ids) == ids[Len(ids)]

\* for tool_call in assistant_message.tool_calls: the next call to execute
NextCall(ids) == Head(ids)

\* tools=TOOLS is passed to the first completion only
ToolsOffered(n) == n = 1

\* message.content of a completion: a text, or None
Contents == {"text", "none"}

\* a loop that a failed result ends: the calls left are not executed
AfterResultBreak(ok, rest) ==
    IF rest = <<>> \/ ~ok THEN "model2" ELSE "tools"

\* after a result is appended the loop takes the next call of the reply,
\* whatever the result says; after the last one comes the second completion
AfterResult(ok, rest) == IF rest = <<>> THEN "model2" ELSE "tools"

\* a chat whose except clause raises again
ErrorRaised(a) == [a EXCEPT !.pc = "raised", !.error = TRUE]

\* chat returns {"response": None, "error": ...}
ErrorResult(a) == [a EXCEPT !.pc = "done", !.response = "none", !.error = TRUE]

\* a call arrives: POST /api/chat, or a new record's evaluation
AgentInit ==
    /\ IngestInit
    /\ ret = RetIdle
    /\ emb = EmbIdle
    /\ tasks = {}
    /\ instructions \in SUBSET InstructionRows
    /\ \E u \in Users :
        \/ ag = [AgIdle EXCEPT !.pc = "chat", !.entry = "chat", !.user = u,
                               !.chatCalls = 1, !.snapshot = instructions]
        \/ \E t \in EventTypes :
            ag = [AgIdle EXCEPT !.pc = "trigger", !.entry = "trigger", !.user = u,
                                !.event = t, !.snapshot = instructions]

\* process_ongoing_instructions up to its call of chat
TriggerLoad ==
    /\ ag.pc = "trigger"
    /\ \/ ag' = [ag EXCEPT !.pc = "raised"]
       \/ LET rel == RelevantInstructions(instructions, ag.user, ag.event)
          IN  ag' = IF rel = {}
                    THEN [ag EXCEPT !.pc = "done"]
                    ELSE [ag EXCEPT !.pc = "chat", !.shown = Texts(rel),
                                    !.chatCalls = @ + 1]
    /\ UNCHANGED <<ingestVars, ret, emb, instructions, tasks>>

\* chat up to its try: the instructions are loaded and the prompt is built
ChatLoad ==
    /\ ag.pc = "chat"
    /\ \/ ag' = [ag EXCEPT !.pc = "raised", !.chatRaised = TRUE]
       \/ ag' = [ag EXCEPT !.pc = "model1",
                           !.system = Texts(ActiveInstructions(instructions, ag.user))]
    /\ UNCHANGED <<ingestVars, ret, emb, instructions, tasks>>

\* the first completion, with the tools offered; the reply asks for at most
\* most tool calls
FirstCompletion(most) ==
    /\ ag.pc = "model1"
    /\ LET a == [ag EXCEPT !.modelCalls = @ + 1,
                           !.presented = Append(@, ag.system \cup ag.shown),
                           !.offered = Append(@, [tools |-> ToolsOffered(ag.modelCalls + 1),
                                                  results |-> Len(ag.results)])]
       IN  \/ ag' = ErrorResult(a)
           \/ \E c \in Contents : ag' = [a EXCEPT !.pc = "done", !.response = c]
           \/ \E n \in 1..most : \E cs \in SeqsOfLen(ToolNames, n) :
                ag' = [a EXCEPT !.pc = "tools", !.reply = cs,
                                !.calls = [k \in 1..n |-> k]]
    /\ UNCHANGED <<ingestVars, ret, emb, instructions, tasks>>

ModelCall1 == FirstCompletion(MaxTools)

\* one tool call of the reply is executed and its result appended, tagged
\* with the call's id (its place in the reply)
ToolStep ==
    /\ ag.pc = "tools"
    /\ LET id == NextCall(ag.calls)
           name == ag.reply[id]
           rest == SelectSeq(ag.calls, LAMBDA k : k # id)
       IN  \E o \in ToolOutcomes(name, ag.user, instructions, tasks) :
            LET a == [ag EXCEPT
                        !.toolExecs = @ + 1,
                        !.execs = Append(@, [id |-> id, name |-> name, raised |-> o.raised,
                                             success |-> o.success, provider |-> o.provider,
                                             arg |-> o.arg,
                                             wrote |-> o.instructions # instructions
                                                       \/ o.tasks # tasks,
                                             before |-> Len(ag.results)])]
            IN  /\ instructions' = o.instructions
                /\ tasks' = o.tasks
                /\ ag' = IF o.raised
                         THEN [ErrorResult(a) EXCEPT !.toolRaised = TRUE]
                         ELSE [a EXCEPT
                                !.calls = rest,
                                !.results = Append(@, [id |-> id, name |-> name,
                                                       success |-> o.success]),
                                !.providerCalls = @ + o.provider,
                                !.classifyCalls = @ + (IF o.answer = "none" THEN 0 ELSE 1),
                                !.classified =
                                    IF o.answer = "none" THEN @
                                    ELSE Append(@, [answer |-> o.answer,
                                                    result |-> DetectTriggerType(o.answer)]),
                                !.pc = AfterResult(o.success, rest)]
    /\ UNCHANGED <<ingestVars, ret, emb>>

\* the second completion
ModelCall2 ==
    /\ ag.pc = "model2"
    /\ LET a == [ag EXCEPT !.modelCalls = @ + 1,
                           !.presented = Append(@, ag.system \cup ag.shown),
                           !.offered = Append(@, [tools |-> ToolsOffered(ag.modelCalls + 1),
                                                  results |-> Len(ag.results)])]
       IN  \/ ag' = ErrorResult(a)
           \/ \E c \in Contents : ag' = [a EXCEPT !.pc = "done", !.response = c]
    /\ UNCHANGED <<ingestVars, ret, emb, instructions, tasks>>

\* the trigger types a caller of POST /ongoing-instruction may send; "all" is
\* the default
DirectTypes == {"all", "sms"}

\* POST /ongoing-instruction, served before the call at hand has loaded
\* anything: the row is stored with the trigger type as sent
add_ongoing_instruction(u, t) ==
    /\ ag.pc \in {"chat", "trigger"}
    /\ \A i \in instructions : i.instruction # "direct"
    /\ instructions' = instructions \cup
            {[id |-> Cardinality(instructions) + 1, user_id |-> u,
              instruction |-> "direct", trigger_type |-> t, is_active |-> TRUE]}
    /\ ag' = [ag EXCEPT !.snapshot = instructions']
    /\ UNCHANGED <<ingestVars, ret, emb, tasks>>

AgentNext == TriggerLoad \/ ChatLoad \/ ModelCall1 \/ ToolStep \/ ModelCall2

\* one call of the agent
SpecAgent == AgentInit /\ [][AgentNext]_vars

InstructionsNext ==
    \/ TriggerLoad
    \/ ChatLoad
    \/ ModelCall1
    \/ ToolStep
    \/ ModelCall2
    \/ \E u \in Users, t \in DirectTypes : add_ongoing_instruction(u, t)

\* one call of the agent, and the endpoint that stores an instruction
SpecInstructions == AgentInit /\ [][InstructionsNext]_vars

Init == IngestInit /\ ret = RetIdle /\ emb = EmbIdle /\ AgentIdle

Next == IngestNext

Spec == Init /\ [][Next]_vars

\* the scheduler's pass
SpecPolling == Init /\ [][PollingNext]_vars

(***************************************************************************)
(* A gmail sync with the evaluations it makes                              *)
(***************************************************************************)
\* the stored instructions are loaded by every evaluation of the run
EvaluationInit ==
    /\ IngestInit
    /\ ret = RetIdle
    /\ emb = EmbIdle
    /\ tasks = {}
    /\ instructions = InstructionRows
    /\ ag = AgIdle

\* POST /sync/gmail, once
RequestGmailSync(u) == runs = <<>> /\ SyncRequest(u, "gmail")

\* get_email returns or raises; a new message is committed, embedded and
\* counted, and the run awaits process_ongoing_instructions("email", ...)
FetchAndEvaluate(i) ==
    /\ runs[i].pc = "fetch"
    /\ \E out \in {"fetch_error", "embed_error", "ok"} :
        LET res == Stored(runs[i], db, out)
        IN  /\ out = "embed_error" =>
                    RecordAt(runs[i]) \notin BlankText /\ ~SkipStale(runs[i])
            /\ runs' = [runs EXCEPT ![i] = res[1]]
            /\ db' = res[2]
            /\ sync_status' = StatusAfter(sync_status, res[1])
            /\ ag' = IF res[1].pc = "eval"
                     THEN [AgIdle EXCEPT !.pc = "trigger", !.entry = "trigger",
                                         !.user = runs[i].user, !.event = "email",
                                         !.snapshot = instructions]
                     ELSE ag
    /\ UNCHANGED <<connected, sched, mail, ret, emb, instructions, tasks>>

\* the first completion of an evaluation
EvaluationModelCall1 == FirstCompletion(MaxEvalTools)

\* process_ongoing_instructions has returned or raised: the run goes on
EvaluationEnds(i) ==
    /\ runs[i].pc = "eval"
    /\ ag.pc \in {"done", "raised"}
    /\ LET r1 == AfterEvaluation(runs[i], db, ag.pc = "raised")
       IN  /\ runs' = [runs EXCEPT ![i] = r1]
           /\ sync_status' = StatusAfter(sync_status, r1)
    /\ UNCHANGED <<connected, db, sched, mail, ret, emb, agentVars>>

EvaluationNext ==
    \/ \E u \in Users : RequestGmailSync(u)
    \/ \E i \in 1..Len(runs) : FullStart(i)
    \/ \E i \in 1..Len(runs) : ListPage(i)
    \/ \E i \in 1..Len(runs) : FetchAndEvaluate(i)
    \/ TriggerLoad
    \/ ChatLoad
    \/ EvaluationModelCall1
    \/ ToolStep
    \/ ModelCall2
    \/ \E i \in 1..Len(runs) : EvaluationEnds(i)

SpecEvaluation == EvaluationInit /\ [][EvaluationNext]_vars

(***************************************************************************)
(* One user's mailbox as time passes: the timer's polls and full syncs     *)
(***************************************************************************)
\* the user whose mailbox it is; an active instruction for emails is stored
Owner == 1

\* cutoff_time = utcnow() - timedelta(minutes=10): the clock counts in units
\* of this window, and the timer fires at least once in each unit; an age
\* above Window stands for every age a poll no longer looks at
Window == 1

\* users/me/messages with q = "after:<cutoff>", and per message the check
\* "if received_at < cutoff_time: continue": the places in box a poll takes
InWindow(m) == {k \in 1..Len(m.box) : m.box[k].age <= Window}

\* users/me/messages without q: a full sync is given every message there is,
\* received or sent
InMailbox(m) == 1..Len(m.box)

\* users/me/messages/send: the message sent is in the sender's mailbox
Sent(m, n) ==
    [m EXCEPT !.box = @ \o [k \in 1..n |-> [age |-> 0, origin |-> "sent"]]]

\* The listed messages without a row are committed and evaluated one by one;
\* an evaluation may call send_email once (while the mailbox has room): every
\* mailbox the loop can leave behind.
Ingested(m, ids) ==
    LET new == ids \ m.stored
        room == MaxMessages - Len(m.box)
        most == IF Cardinality(new) < room THEN Cardinality(new) ELSE room
    IN  { Sent([m EXCEPT !.stored = @ \cup new, !.evaluated = @ \cup new], n) :
            n \in 0..most }

\* a message from outside arrives
Arrive ==
    /\ Len(mail.box) < MaxMessages
    /\ mail' = [mail EXCEPT !.box = Append(@, [age |-> 0, origin |-> "external"])]
    /\ UNCHANGED <<connected, sync_status, db, runs, sched, ret, emb, agentVars>>

\* time passes, one unit: the timer has fired since it last did, and every
\* message is a unit older
Tick ==
    /\ mail.polled
    /\ mail' = [mail EXCEPT
                    !.polled = FALSE,
                    !.box = [k \in 1..Len(@) |->
                                [@[k] EXCEPT !.age = IF @ > Window THEN @ ELSE @ + 1]]]
    /\ UNCHANGED <<connected, sync_status, db, runs, sched, ret, emb, agentVars>>

\* POST /sync/gmail, and the list call of the background run
MailSyncStart ==
    /\ ~mail.running
    /\ sync_status' = [sync_status EXCEPT ![Owner]["gmail"] = StartedEntry]
    /\ mail' = [mail EXCEPT !.running = TRUE, !.listed = InMailbox(mail)]
    /\ UNCHANGED <<connected, db, runs, sched, ret, emb, agentVars>>

\* the background run has worked through what it listed, and completes
MailSyncEnd ==
    /\ mail.running
    /\ \E m \in Ingested(mail, mail.listed) :
            mail' = [m EXCEPT !.running = FALSE, !.listed = {}]
    /\ sync_status' = [sync_status EXCEPT ![Owner]["gmail"] =
                            CompletedEntry(@, Cardinality(mail.listed \ mail.stored))]
    /\ UNCHANGED <<connected, db, runs, sched, ret, emb, agentVars>>

\* the timer fires: poll_new_emails, which returns at once while a manual
\* sync is marked in progress
TimerPoll ==
    /\ IF PollGuard(sync_status, Owner)
       THEN mail' = [mail EXCEPT !.polled = TRUE]
       ELSE \E m \in Ingested(mail, InWindow(mail)) :
                mail' = [m EXCEPT !.polled = TRUE]
    /\ UNCHANGED <<connected, sync_status, db, runs, sched, ret, emb, agentVars>>

MailNext == Arrive \/ Tick \/ MailSyncStart \/ MailSyncEnd \/ TimerPoll

SpecMail == Init /\ [][MailNext]_vars

\* the timer keeps firing, time passes, and a sync whose provider calls all
\* succeed comes to its end
SpecMailLive ==
    /\ Init
    /\ [][MailNext]_vars
    /\ WF_vars(TimerPoll)
    /\ WF_vars(Tick)
    /\ WF_vars(MailSyncEnd)

(***************************************************************************)
(* Claims about the ingestion pipeline                                     *)
(***************************************************************************)
RunIds == 1..Len(runs)

\* the background run or the poll is past its start and has not ended
InProgress(r) == r.pc \in {"list", "fetch"}

Syncing(u, s) == sync_status[u][s].present /\ sync_status[u][s].syncing

RECURSIVE Flatten(_)
Flatten(pages) ==
    IF pages = <<>> THEN {}
    ELSE {Head(pages)[k] : k \in 1..Len(Head(pages))} \cup Flatten(Tail(pages))

MailboxIds(u, s) == Flatten(Mailbox[u][s])

\* C1: for every (user, source) pair, at most one sync run, full or
\* incremental, is in progress at any time.
C1_SingleFlight ==
    \A i, j \in RunIds :
        (i # j /\ SamePair(runs[i], runs[j].user, runs[j].source))
            => ~(InProgress(runs[i]) /\ InProgress(runs[j]))

\* C2: a poll that starts while sync_status marks the user's gmail sync as
\* syncing ends at once: it makes no list call and no fetch, commits no row,
\* evaluates nothing, and the step leaves sync_status, the tables and every
\* other run as they were.
PollSawSyncing(r) == r.kind = "poll" /\ r.sawSyncing

C2_BlockedPollNoOp ==
    /\ [](\A i \in RunIds :
            PollSawSyncing(runs[i]) =>
                /\ Done(runs[i])
                /\ runs[i].lists = 0 /\ runs[i].fetches = 0
                /\ runs[i].persisted = 0 /\ runs[i].evals = 0)
    /\ [][(Len(runs') = Len(runs) + 1 /\ PollSawSyncing(runs'[Len(runs')]))
            => /\ sync_status' = sync_status
               /\ db' = db
               /\ \A i \in RunIds : runs'[i] = runs[i]]_vars

C2_Witness ==
    \E i \in RunIds : PollSawSyncing(runs[i]) /\ runs[i].outcome = "blocked"

\* C3: once every full-sync run of a pair has ended, by whatever exit, the
\* pair's entry is no longer marked syncing.
C3_SyncingCleared ==
    \A u \in Users, s \in Sources :
        (\A i \in RunIds :
            (SamePair(runs[i], u, s) /\ runs[i].kind = "full") => Done(runs[i]))
            => ~Syncing(u, s)

\* C4: after a full sync that completed, the user's rows are exactly the
\* external records; a full sync that began on an empty table with no other
\* run of the pair beside it reports every external record as imported; a
\* full sync that began after a completed one reports 0 and commits no row;
\* and an imported_count in sync_status is the count of a completed run.
C4_IdempotentSync ==
    /\ \A i \in RunIds :
        LET r == runs[i] IN
        (r.kind = "full" /\ r.outcome = "completed") =>
            /\ UserIds(db, r.user, r.source) = MailboxIds(r.user, r.source)
            /\ (r.fresh /\ r.clean)
                    => r.imported = Cardinality(MailboxIds(r.user, r.source))
            /\ r.after => (r.imported = 0 /\ r.persisted = 0)
    /\ \A u \in Users, s \in Sources :
        sync_status[u][s].imported >= 0 =>
            \E i \in RunIds :
                /\ SamePair(runs[i], u, s) /\ runs[i].kind = "full"
                /\ runs[i].outcome = "completed"
                /\ runs[i].imported = sync_status[u][s].imported

C4_Witness ==
    \E i, j \in RunIds :
        /\ runs[i].kind = "full" /\ runs[i].outcome = "completed"
        /\ runs[i].fresh /\ runs[i].clean /\ runs[i].imported = 3
        /\ runs[j].kind = "full" /\ runs[j].outcome = "completed"
        /\ runs[j].after /\ SamePair(runs[j], runs[i].user, runs[i].source)
        /\ sync_status[runs[j].user][runs[j].source].imported = 0

\* C5: no table holds two rows with the same user and external identifier.
C5_OneRowPerExternalId ==
    \A s \in Sources : \A e, f \in db[s] :
        (e.user_id = f.user_id /\ e.ext = f.ext) => e.id = f.id

\* two runs of one pair fetched the same record and one of them lost the insert
C5_Witness ==
    \E i, j \in RunIds :
        /\ i # j /\ SamePair(runs[i], runs[j].user, runs[j].source)
        /\ runs[i].persisted > 0
        /\ runs[j].error = "integrity"

\* the run has been left by an exception
Errored(r) == r.kind = "full" /\ r.outcome = "error"

\* the provider calls, commits, count and evaluations of run i stay as they are
Halted(i) ==
    /\ runs'[i].lists = runs[i].lists /\ runs'[i].fetches = runs[i].fetches
    /\ runs'[i].persisted = runs[i].persisted /\ runs'[i].imported = runs[i].imported
    /\ runs'[i].evals = runs[i].evals
    /\ runs'[i].page = runs[i].page /\ runs'[i].idx = runs[i].idx

\* every stored row is still stored, under the same user and identifier
RowsKept ==
    \A s \in Sources : \A e \in db[s] :
        \E f \in db'[s] : f.id = e.id /\ f.user_id = e.user_id /\ f.ext = e.ext

\* C18: the step in which a full sync fails leaves the entry of its pair with
\* the error set and syncing false; after it the run lists no page, fetches
\* and commits no record and evaluates nothing; no step removes a stored row.
C18_FailureAborts ==
    /\ [][\A i \in RunIds :
            (runs[i].kind = "full" /\ ~Errored(runs[i]) /\ Errored(runs'[i])) =>
                LET e == sync_status'[runs[i].user][runs[i].source]
                IN  e.present /\ e.error /\ ~e.syncing]_vars
    /\ [][\A i \in RunIds : Errored(runs[i]) => (Done(runs'[i]) /\ Halted(i))]_vars
    /\ [][RowsKept]_vars

C18_Witness ==
    \E i \in RunIds :
        /\ Errored(runs[i]) /\ runs[i].error = "fetch"
        /\ runs[i].persisted = 1 /\ runs[i].fetches = 2 /\ runs[i].lists = 1
        /\ HasNextPage(PagesOf(runs[i]), runs[i].page)
        /\ \E e \in db["gmail"] : e.user_id = runs[i].user /\ e.ext = "m1"
        /\ sync_status[runs[i].user]["gmail"].error
        /\ ~sync_status[runs[i].user]["gmail"].syncing

\* C19: a full sync that has not failed has evaluated the instructions once
\* for every record it has persisted, whichever the source.
C19_EvaluatesNewRecords ==
    \A i \in RunIds :
        (runs[i].kind = "full" /\ runs[i].outcome \in {"none", "completed"}) =>
            runs[i].evals = runs[i].persisted

\* the external records of the run's pair that had no row when the run began
NewFor(r) == MailboxIds(r.user, r.source) \ r.had

\* A full sync fetches, counts and evaluates no record that had a row when
\* it began, and one that completes with no other run of its pair under way
\* fetches and counts every other record once.
SkipsStored ==
    \A i \in RunIds :
        runs[i].kind = "full" =>
            /\ runs[i].fetches <= Cardinality(NewFor(runs[i]))
            /\ runs[i].imported <= runs[i].fetches
            /\ runs[i].evals <= runs[i].imported
            /\ (runs[i].outcome = "completed" /\ runs[i].clean) =>
                    /\ runs[i].fetches = Cardinality(NewFor(runs[i]))
                    /\ runs[i].imported = Cardinality(NewFor(runs[i]))

C21_SyncUnaffectedByOthers ==
    \A i \in RunIds :
        (runs[i].kind = "full" /\ runs[i].clean) => runs[i].error # "integrity"

\* C22: the pass calls poll_new_emails for the users of its list in order,
\* one run each, and when it has ended it has done so for every user of the
\* list, whatever the outcome of the polls before.
C22_PassPollsEveryone ==
    /\ Len(sched.polls) <= Len(sched.roster)
    /\ \A k \in 1..Len(sched.polls) :
        /\ sched.polls[k] \in RunIds
        /\ runs[sched.polls[k]].kind = "poll"
        /\ runs[sched.polls[k]].user = sched.roster[k]
    /\ sched.pc = "done" => Len(sched.polls) = Len(sched.roster)

\* a pass over two users has ended; the first user's poll failed
C22_Witness ==
    /\ sched.pc = "done" /\ Len(sched.roster) = 2 /\ Len(sched.polls) = 2
    /\ runs[sched.polls[1]].outcome = "error"
    /\ runs[sched.polls[2]].user # runs[sched.polls[1]].user
    /\ runs[sched.polls[2]].outcome = "completed"

\* the list calls and records of a listing from page p on, in the provider's
\* order, up to the first page without a next-page token; with atEmpty, up to
\* the first page without a record if that comes first
RECURSIVE InOrder(_, _, _)
InOrder(pages, p, atEmpty) ==
    LET msgs == PageAt(pages, p)
        here == <<[op |-> "list", page |-> p, id |-> "-"]>>
                \o [k \in 1..Len(msgs) |-> [op |-> "rec", page |-> p, id |-> msgs[k]]]
    IN  IF p < Len(pages) /\ ~(atEmpty /\ msgs = <<>>)
        THEN here \o InOrder(pages, p + 1, atEmpty)
        ELSE here

StartsWith(whole, part) ==
    Len(part) <= Len(whole) /\ part = SubSeq(whole, 1, Len(part))

\* what run i has listed and taken up is a beginning of expected, and all of
\* it when the run has completed
FollowsListing(i, expected) ==
    /\ StartsWith(expected, runs[i].trace)
    /\ runs[i].outcome = "completed" => runs[i].trace = expected
    /\ runs[i].lists = Cardinality({k \in 1..Len(runs[i].trace) : runs[i].trace[k].op = "list"})

\* C23, as stated: a run lists page after page, takes up the records of a
\* page in the provider's order before it lists the next page, and ends
\* after the first page without a next-page token.
C23_EndsAtLastToken ==
    \A i \in RunIds : FollowsListing(i, InOrder(PagesOf(runs[i]), 1, FALSE))

\* C23, amended: the same, and a poll ends after the first page without a
\* record as well.
C23_SequentialPages ==
    \A i \in RunIds :
        (runs[i].lists > 0) =>
            FollowsListing(i, InOrder(PagesOf(runs[i]), 1, runs[i].kind = "poll"))

\* a full sync has gone through its two pages, and a poll has ended at an
\* empty page that carried a token
C23_Witness ==
    \E i, j \in RunIds :
        /\ runs[i].kind = "full" /\ runs[i].outcome = "completed"
        /\ runs[i].lists = 2 /\ Len(runs[i].trace) = 5
        /\ runs[j].kind = "poll" /\ runs[j].outcome = "completed"
        /\ runs[j].lists = 1 /\ HasNextPage(PagesOf(runs[j]), 1)

\* how often x occurs in seq
Count(seq, x) == Cardinality({k \in 1..Len(seq) : seq[k] = x})

\* the evaluations made for record x of user u by the runs 1..n
RECURSIVE Evaluations(_, _, _)
Evaluations(u, x, n) ==
    IF n = 0 THEN 0
    ELSE Evaluations(u, x, n - 1)
         + (IF runs[n].user = u THEN Count(runs[n].evaluated, x) ELSE 0)

ExternalIds == UNION {MailboxIds(u, s) : u \in Users, s \in Sources}

\* C29: whatever runs there were, the instructions have been evaluated at
\* most once for a user and an external identifier.
C29_EvaluatedAtMostOnce ==
    \A u \in Users, x \in ExternalIds : Evaluations(u, x, Len(runs)) <= 1

\* a full sync and a poll of one user both fetched m3; one evaluated it and
\* the other's insert was refused
C29_Witness ==
    \E i, j \in RunIds :
        /\ runs[i].kind = "full" /\ runs[j].kind = "poll"
        /\ SamePair(runs[j], runs[i].user, runs[i].source)
        /\ Count(runs[i].evaluated, "m3") = 1
        /\ runs[j].fetches > 0 /\ runs[j].error = "integrity"
        /\ runs[j].evaluated = <<>>

\* C30: when the run started last is a full sync that has completed, with
\* every other run of its pair ended before it began, every message of the
\* user with text has an embedding and has been passed to the evaluation.
C30_CompletedRunCoversAll ==
    \A i \in RunIds :
        (/\ i = Len(runs) /\ runs[i].kind = "full" /\ runs[i].source = "gmail"
         /\ runs[i].clean /\ runs[i].outcome = "completed") =>
            \A e \in db["gmail"] :
                (e.user_id = runs[i].user /\ e.ext \notin BlankText) =>
                    /\ e.embedded
                    /\ Evaluations(e.user_id, e.ext, Len(runs)) > 0

(***************************************************************************)
(* Claims about the retrieval engine                                       *)
(***************************************************************************)
\* the query matches the sender of at least one of the user's emails
SenderHit == ExactCandidates(ret.user, ret.query) # {}

OnlyExactEmails ==
    \A i \in 1..Len(ret.emails) : ret.emails[i] \in ExactCandidates(ret.user, ret.query)

Ascending(rows, qv) ==
    \A i, j \in 1..Len(rows) :
        i < j => Distance(rows[i].vec, qv) <= Distance(rows[j].vec, qv)

\* C6, as stated: when the query matches a sender, a call that returned gave
\* only exact-match emails and made no embedding call at all.
C6_ExactNoEmbedding ==
    (ret.pc = "done" /\ SenderHit) => (OnlyExactEmails /\ ret.embedCalls = 0)

\* C6, amended: when the query matches a sender, the emails come from the
\* exact phase, every one of them is an exact match, the email search makes no
\* embedding call, and a call that returned made exactly one embedding call,
\* the one of the contact search.
C6_ExactPrecedence ==
    (ret.pc \in {"contacts", "done", "raised"} /\ SenderHit) =>
        /\ ret.phase = "exact" /\ ret.emails # <<>>
        /\ OnlyExactEmails
        /\ ret.emailCalls = 0
        /\ ret.pc = "done" => ret.embedCalls = 1

C6_Witness ==
    /\ ret.pc = "done" /\ SenderHit /\ ret.phase = "exact"
    /\ Len(ret.emails) = 2 /\ ret.embedCalls = 1 /\ ret.contacts # <<>>

\* C7, as stated: when the query matches no sender, a call that returned made
\* exactly one embedding call and its records are in ascending distance.
C7_SemanticOnce ==
    (ret.pc = "done" /\ ~SenderHit) =>
        /\ ret.embedCalls = 1
        /\ Ascending(ret.emails, ret.evec) /\ Ascending(ret.contacts, ret.cvec)

\* C7, amended: when the query matches no sender, a call that returned made
\* exactly two embedding calls, one by the email search and one by the contact
\* search, and each list is in ascending distance from the vector its own call
\* got, holding only rows of the user that have an embedding.
C7_SemanticFallback ==
    (ret.pc = "done" /\ ~SenderHit) =>
        /\ ret.phase = "semantic"
        /\ ret.emailCalls = 1 /\ ret.embedCalls = 2
        /\ Ascending(ret.emails, ret.evec) /\ Ascending(ret.contacts, ret.cvec)
        /\ \A i \in 1..Len(ret.emails) :
                ret.emails[i].user_id = ret.user /\ ret.emails[i].vec # NullVec
        /\ \A i \in 1..Len(ret.contacts) :
                ret.contacts[i].user_id = ret.user /\ ret.contacts[i].vec # NullVec

C7_Witness ==
    /\ ret.pc = "done" /\ ~SenderHit /\ ret.embedCalls = 2
    /\ Len(ret.emails) = 2 /\ Len(ret.contacts) = 2
    /\ Distance(ret.emails[1].vec, ret.evec) < Distance(ret.emails[2].vec, ret.evec)
    /\ Distance(ret.contacts[1].vec, ret.cvec) < Distance(ret.contacts[2].vec, ret.cvec)

\* the blocks of kind in the output, in order
BlocksIn(out, kind) == SelectSeq(out, LAMBDA p : p.kind = kind)

\* C26: a call that returned gave the sentinel exactly when both searches
\* found nothing; otherwise its output holds one block for every email and
\* every contact found, in the order found, and is not the sentinel.
C26_SentinelIffNothingFound ==
    ret.pc = "done" =>
        /\ ret.output = Sentinel <=> (ret.emails = <<>> /\ ret.contacts = <<>>)
        /\ BlocksIn(ret.output, "email") = Blocks("email", ret.emails)
        /\ BlocksIn(ret.output, "contact") = Blocks("contact", ret.contacts)

\* the third user asks for something no sender matches: nothing is found
C26_Witness ==
    /\ ret.pc = "done" /\ ret.emails = <<>> /\ ret.contacts = <<>>
    /\ ret.embedCalls = 2 /\ ret.output = Sentinel

\* part occurs in text as it stands, whatever the case of the letters
Contains(text, part) ==
    \E i \in 0..(Len(text) - Len(part)) :
        \A j \in 1..Len(part) : LowerChar(text[i + j]) = LowerChar(part[j])

Blank(text) == \A i \in 1..Len(text) : text[i] = " "

\* the user's emails whose sender holds the query, or the query without its
\* blanks, character for character; none for a query of blanks only
LiteralCandidates(u, query) ==
    IF Blank(query) THEN {}
    ELSE {e \in EmailRows :
            /\ e.user_id = u
            /\ (Contains(e.from_email, query) \/ Contains(e.from_email, RemoveSpaces(query)))}

\* C28: once the email search has returned, its result is from the exact
\* phase exactly when some sender holds the query literally, and is then the
\* newest kEmails of those emails, newest first.
C28_LiteralExactMatch ==
    ret.phase \in {"exact", "semantic"} =>
        LET S == LiteralCandidates(ret.user, ret.query)
        IN  /\ ret.phase = "exact" <=> S # {}
            /\ ret.phase = "exact" =>
                    ret.emails \in Limited(S, [e \in S |-> NewestFirstKey(e)], ret.kEmails)

(***************************************************************************)
(* Claims about the trigger evaluator and the orchestrator                 *)
(***************************************************************************)
\* the active instructions of the calling user, as they were when the call came
ActiveAtCall(t) ==
    {i \in ag.snapshot : i.user_id = ag.user /\ i.is_active /\ i.trigger_type = t}

ShownInEveryCall(text) == \A n \in 1..Len(ag.presented) : text \in ag.presented[n]

ShownInNoCall(text) == \A n \in 1..Len(ag.presented) : text \notin ag.presented[n]

\* C8: in the evaluation of an email event no model call is given the text of
\* an active calendar instruction, and in the evaluation of an event of any
\* source every model call is given the text of every active all instruction.
C8_TriggerFiltering ==
    ag.entry = "trigger" =>
        /\ ag.event = "email" =>
                \A i \in ActiveAtCall("calendar") : ShownInNoCall(i.instruction)
        /\ \A i \in ActiveAtCall("all") : ShownInEveryCall(i.instruction)

\* C9: an evaluation calls chat at most once; with no active instruction of
\* the user for the event's type or for all it calls neither chat nor the
\* model nor a tool and returns no response; with one, an evaluation that is
\* past its load has called chat exactly once.
Matching ==
    \E i \in ag.snapshot :
        /\ i.user_id = ag.user /\ i.is_active
        /\ (i.trigger_type = ag.event \/ i.trigger_type = "all")

C9_TriggerInvokesOnce ==
    ag.entry = "trigger" =>
        /\ ag.chatCalls <= 1
        /\ ~Matching =>
                /\ ag.chatCalls = 0 /\ ag.modelCalls = 0 /\ ag.toolExecs = 0
                /\ ag.response = "none"
                /\ ag.pc \in {"trigger", "done", "raised"}
        /\ (Matching /\ ag.pc \notin {"trigger", "raised"}) => ag.chatCalls = 1
        /\ (Matching /\ ag.pc = "raised") => ag.chatCalls = (IF ag.chatRaised THEN 1 ELSE 0)

C9_Witness ==
    /\ ag.entry = "trigger" /\ ag.pc = "done" /\ Matching
    /\ ag.snapshot = InstructionRows
    /\ ag.chatCalls = 1 /\ ag.modelCalls = 2 /\ ag.toolExecs = 2

\* C10: chat never raises; a failure is returned as a result with the error
\* set and no response text.
C10_NeverRaises ==
    /\ ~ag.chatRaised
    /\ ag.error => ag.response = "none"

\* the fixed registry of the dispatcher
Registry == GoogleTools \cup HubspotTools \cup LocalTools

\* C11: a call makes at most two model calls; a call that returned after a
\* first reply without tool invocations made one model call and executed no
\* tool; one that returned after a first reply with tool invocations made
\* exactly two, the second without tools; the first call is the only one that
\* is given the tools.
C11_ModelCallCount ==
    /\ ag.modelCalls <= 2
    /\ Len(ag.offered) = ag.modelCalls
    /\ \A n \in 1..Len(ag.offered) : ag.offered[n].tools = (n = 1)
    /\ (ag.pc = "done" /\ ag.reply = <<>>) => (ag.modelCalls <= 1 /\ ag.toolExecs = 0)
    /\ (ag.pc = "done" /\ ag.reply # <<>>) => ag.modelCalls = 2

C13_ToolIsolation ==
    /\ ~ag.toolRaised
    /\ \A k \in 1..Len(ag.execs) : ~ag.execs[k].raised

\* the tool needs a provider the user has not connected
Unconnected(name) ==
    \/ name \in GoogleTools /\ ~HasService(ag.user, "gmail")
    \/ name \in HubspotTools /\ ~HasService(ag.user, "hubspot")

\* C14: every execution of a tool whose provider is not connected returns
\* success=false, calls no provider and writes nothing.
C14_ProviderGuard ==
    \A k \in 1..Len(ag.execs) :
        Unconnected(ag.execs[k].name) =>
            /\ ~ag.execs[k].raised /\ ~ag.execs[k].success
            /\ ag.execs[k].provider = 0 /\ ~ag.execs[k].wrote

\* C15: every execution of a tool name outside the registry returns
\* success=false, writes no row and calls no provider.
C15_UnknownTool ==
    \A k \in 1..Len(ag.execs) :
        ag.execs[k].name \notin Registry =>
            /\ ~ag.execs[k].raised /\ ~ag.execs[k].success
            /\ ag.execs[k].provider = 0 /\ ~ag.execs[k].wrote

\* C16, as stated: every classification returns one of the four values: the
\* answer when the answer is one of them, and all otherwise.
C16_AnswerOrAll ==
    \A k \in 1..Len(ag.classified) :
        /\ ag.classified[k].result \in ValidTypes
        /\ ag.classified[k].result =
                (IF ag.classified[k].answer \in ValidTypes
                 THEN ag.classified[k].answer ELSE "all")

\* C16, amended: every classification returns one of the four values: the
\* answer with the blanks around it removed and in lower case when that is one
\* of them, and all when it is not or when the call failed.
C16_ClosedClassification ==
    \A k \in 1..Len(ag.classified) :
        LET c == ag.classified[k] IN
        /\ c.result \in {"email", "calendar", "hubspot", "all"}
        /\ c.answer = "calendar" => c.result = "calendar"
        /\ c.answer = "Email" => c.result = "email"
        /\ c.answer = " all " => c.result = "all"
        /\ c.answer \in {"maybe", "RAISE"} => c.result = "all"

C16_Witness ==
    /\ ag.pc = "done" /\ Len(ag.classified) = 2
    /\ ag.classified[1].answer = "maybe" /\ ag.classified[1].result = "all"
    /\ ag.classified[2].answer = "Email" /\ ag.classified[2].result = "email"
    /\ \E i \in instructions : i.instruction = " New " /\ i.trigger_type = "email"

\* C17: every stored instruction has one of the four trigger types.
C17_ClosedTriggerTypes ==
    \A i \in instructions : i.trigger_type \in {"email", "calendar", "hubspot", "all"}

\* C24: once chat has built its prompt, the system prompt holds the text of
\* every instruction of the calling user that was active when the call came,
\* and the text of no instruction that was inactive or another user's.
C24_PromptHoldsActiveInstructions ==
    (ag.chatCalls = 1 /\ ag.pc \notin {"chat", "raised"}) =>
        \A i \in ag.snapshot :
            i.instruction \in ag.system <=> (i.user_id = ag.user /\ i.is_active)

\* user 1 asks with all four instructions stored: two are in the prompt
C24_Witness ==
    /\ ag.entry = "chat" /\ ag.user = 1 /\ ag.pc = "done" /\ ag.modelCalls = 2
    /\ ag.snapshot = InstructionRows
    /\ ag.system = {"on_calendar", "on_all"}

\* the tool execution made by this step, if it makes one
Executed == ag'.execs[Len(ag'.execs)]

\* C25: a create_task execution that succeeds adds exactly one task, of the
\* calling user and pending, and leaves every other row as it was; a
\* create_ongoing_instruction execution that succeeds adds exactly one
\* instruction, of the calling user, active, with the text of the argument.
C25_CreateStoresOneRow ==
    [][Len(ag'.execs) = Len(ag.execs) + 1 =>
        /\ (Executed.name = "create_task" /\ Executed.success) =>
                /\ instructions' = instructions
                /\ \E t \in tasks' \ tasks :
                        /\ tasks' = tasks \cup {t}
                        /\ t.user_id = ag.user /\ t.status = "pending"
        /\ (Executed.name = "create_ongoing_instruction" /\ Executed.success) =>
                /\ tasks' = tasks
                /\ \E i \in instructions' \ instructions :
                        /\ instructions' = instructions \cup {i}
                        /\ i.user_id = ag.user /\ i.is_active
                        /\ i.instruction = Executed.arg]_vars

\* one reply asked for both tools and both succeeded
C25_Witness ==
    /\ Len(ag.execs) = 2
    /\ ag.execs[1].name = "create_task" /\ ag.execs[1].success
    /\ ag.execs[2].name = "create_ongoing_instruction" /\ ag.execs[2].success
    /\ ag.execs[2].arg = " New "
    /\ \E t \in tasks : t.user_id = ag.user /\ t.status = "pending"
    /\ \E i \in instructions : i.user_id = ag.user /\ i.instruction = " New "
    /\ Cardinality(tasks) = 1

(***************************************************************************)
(* Claims about get_embedding                                              *)
(***************************************************************************)
\* part is a beginning of text, both written run by run
RECURSIVE BeginsWith(_, _)
BeginsWith(text, part) ==
    \/ part = <<>>
    \/ /\ text # <<>>
       /\ Head(part).c = Head(text).c
       /\ IF Len(part) = 1
          THEN Head(part).n <= Head(text).n
          ELSE Head(part).n = Head(text).n /\ BeginsWith(Tail(text), Tail(part))

Shorter(a, b) == IF a <= b THEN a ELSE b

\* C27: what a call of get_embedding sent to the provider is the beginning of
\* its text of length min(len(text), MAX_CHARS); every call reached the
\* provider, so none was refused for its length; and a call given the text
\* an earlier call had sent sends that text as it is.
C27_TruncatedPrefix ==
    emb.pc \in {"returned", "raised"} =>
        /\ BeginsWith(emb.text, emb.submitted)
        /\ TextLen(emb.submitted) = Shorter(TextLen(emb.text), MAX_CHARS)
        /\ emb.providerCalls = emb.round
        /\ emb.round = 2 => (emb.submitted = emb.text /\ BeginsWith(emb.given, emb.text))

\* a text of two runs, longer than MAX_CHARS, was cut within its second run,
\* and what was sent has been sent again
C27_Witness ==
    /\ emb.pc = "returned" /\ emb.round = 2
    /\ Len(emb.given) = 2 /\ TextLen(emb.given) > MAX_CHARS
    /\ Len(emb.submitted) = 2 /\ TextLen(emb.submitted) = MAX_CHARS
    /\ emb.submitted # emb.given

(***************************************************************************)
(* Claims about SyncState while a sync is under way                        *)
(***************************************************************************)
\* C33: whenever a full-sync run of a (user, source) pair has been requested
\* and has not yet ended, the pair's entry of sync_status is marked syncing,
\* also when several requests for the pair overlap.
C33_SyncingWhileRequested ==
    \A i \in RunIds :
        (runs[i].kind = "full" /\ ~Done(runs[i]))
            => Syncing(runs[i].user, runs[i].source)

\* C37: starting, completing or failing a sync of one (user, source) pair
\* changes no entry of sync_status but that pair's: every entry a step
\* changes belongs to the pair of the full-sync run the step requested or
\* moved.
Moved(i) == i > Len(runs) \/ runs'[i] # runs[i]

C37_OnlyOwnEntry ==
    [][\A u \in Users, s \in Sources :
          sync_status'[u][s] # sync_status[u][s]
             => \E i \in 1..Len(runs') :
                   /\ Moved(i) /\ runs'[i].kind = "full"
                   /\ SamePair(runs'[i], u, s)
                   /\ \A v \in Users, t \in Sources :
                         <<v, t>> # <<u, s>>
                            => sync_status'[v][t] = sync_status[v][t]]_vars

\* a sync of user 1's gmail has completed and written its count while user
\* 1's hubspot sync, requested before, is under way and still shows as started
C37_Witness ==
    /\ sync_status[1]["hubspot"] = StartedEntry
    /\ sync_status[1]["gmail"].completed /\ ~sync_status[1]["gmail"].error
    /\ sync_status[1]["gmail"].imported = 3
    /\ \E i \in RunIds : SamePair(runs[i], 1, "hubspot") /\ ~Done(runs[i])

(***************************************************************************)
(* Claims about what retrieval returns                                     *)
(***************************************************************************)
OwnedBy(rows, u) == \A i \in 1..Len(rows) : rows[i].user_id = u

AllEmbedded(rows) == \A i \in 1..Len(rows) : rows[i].vec # NullVec

\* C38: every email and every contact a search gave belongs to the calling
\* user; those of a semantic search have an embedding; and there are at most
\* kEmails emails and at most kContacts contacts.
C38_OwnRowsWithinLimits ==
    /\ ret.pc \in {"contacts", "done", "raised"} =>
        /\ OwnedBy(ret.emails, ret.user)
        /\ ret.phase = "semantic" => AllEmbedded(ret.emails)
        /\ Len(ret.emails) <= ret.kEmails
    /\ ret.pc = "done" =>
        /\ OwnedBy(ret.contacts, ret.user)
        /\ AllEmbedded(ret.contacts)
        /\ Len(ret.contacts) <= ret.kContacts

\* user 1, whose query matches no sender, gets one email and one contact
\* although two embedded rows of each kind are stored for user 1, beside rows
\* of user 2 and rows without embedding
C38_Witness ==
    /\ ret.pc = "done" /\ ret.user = 1 /\ ret.phase = "semantic"
    /\ ret.kEmails = 1 /\ Len(ret.emails) = 1
    /\ ret.kContacts = 1 /\ Len(ret.contacts) = 1
    /\ Cardinality(Embedded(EmailRows, 1)) >= 2
    /\ Cardinality(Embedded(ContactRows, 1)) >= 2
    /\ \E e \in ContactRows : e.user_id = 2 /\ e.vec # NullVec
    /\ \E e \in EmailRows : e.user_id = 1 /\ e.vec = NullVec

(***************************************************************************)
(* Claims about one call of chat                                           *)
(***************************************************************************)
\* the k-th execution returned a result that says success = false
ReturnedFailure(k) == ~ag.execs[k].raised /\ ~ag.execs[k].success

C35_ExactlyOneField ==
    (ag.pc = "done" /\ ag.chatCalls = 1 /\ ~ag.chatRaised)
        => ((ag.response # "none") # ag.error)

(***************************************************************************)
(* Claims about a sync run and its evaluations                             *)
(***************************************************************************)
\* the evaluation met a failure of a completion or of a tool
FailedInside(a) ==
    a.modelCalls >= 1 /\ (a.error \/ \E k \in 1..Len(a.execs) : ~a.execs[k].success)

\* the run at its evaluation has a new record left on its page, or a next page
MoreToDo(r) ==
    \/ HasNextPage(PagesOf(r), r.page)
    \/ \E k \in (r.idx + 1)..Len(PageAt(PagesOf(r), r.page)) :
            ~Existing(db, r.user, r.source, PageAt(PagesOf(r), r.page)[k])

\* C36: when the evaluation of a new record met a failure of a model call or
\* of a tool, the run that awaited it goes on: it records no error, neither
\* on itself nor in sync_status, keeps its count and the tables, and takes
\* the next new record or page if there is one, else completes; a run ends
\* with an error from its evaluation only when the evaluation raised before
\* any model call.
C36_EvaluationFailureGoesOn ==
    /\ [][\A i \in 1..Len(runs) :
            (runs[i].pc = "eval" /\ runs'[i].pc # "eval" /\ FailedInside(ag)) =>
                /\ runs'[i].error = "none"
                /\ ~sync_status'[runs[i].user]["gmail"].error
                /\ runs'[i].imported = runs[i].imported
                /\ db' = db
                /\ IF MoreToDo(runs[i])
                   THEN runs'[i].pc \in {"fetch", "list"} /\ runs'[i].outcome = "none"
                   ELSE runs'[i].outcome = "completed"]_vars
    /\ [](\A i \in 1..Len(runs) :
            runs[i].error = "eval" =>
                ag.pc = "raised" /\ ag.modelCalls = 0 /\ ag.execs = <<>>)

\* user 1's sync has counted two messages; the evaluation of the second ended
\* with a failed completion, and the run is about to list the next page
C36_Witness ==
    \E i \in 1..Len(runs) :
        /\ runs[i].user = 1 /\ runs[i].pc = "list" /\ runs[i].page = 2
        /\ runs[i].imported = 2 /\ runs[i].evaluated = <<"m1", "m2">>
        /\ runs[i].outcome = "none"
        /\ ag.pc = "done" /\ ag.error /\ ag.modelCalls = 1 /\ ag.execs = <<>>

(***************************************************************************)
(* Claims about the mailbox over time                                      *)
(***************************************************************************)
\* C31: no message that the send tool sent during an evaluation is later
\* taken by a poll or a sync as a new record and evaluated itself.
C31_SentNeverEvaluated ==
    \A k \in mail.evaluated : mail.box[k].origin # "sent"

\* C32: every message that arrives is eventually stored by a poll or a full
\* sync, as long as the timer keeps firing and no provider call fails.
C32_EveryMessageStored ==
    \A k \in 1..MaxMessages :
        (k \in InMailbox(mail) /\ mail.box[k].origin = "external")
            ~> (k \in mail.stored)

====
